---- MODULE Spec2Model ----
(***************************************************************************)
(* A model of rust-lp-modeler's LP-file serializer (format/lp_format.rs)   *)
(* and of its Gurobi adapter (solvers/gurobi.rs).                          *)
(*                                                                         *)
(* Text is held as TLA+ strings, so that every space and newline the code  *)
(* writes is visible.  An f32 is held as an integer number of tenths       *)
(* (2.0 is 20, -1.0 is -10, 1.5 is 15).                                    *)
(***************************************************************************)
EXTENDS Integers, Sequences, FiniteSets, TLC

VARIABLES
    prob,          \* serializer: the LpProblem being serialized
    subject,       \* serializer: what the call rendered: "none", "expr", "problem"
    buffer,        \* serializer: the String returned by to_lp_file_format
    sol_file,      \* parser: the lines of the solution file, the header first
    sol_problem,   \* parser: the Option<&LpProblem> argument (the problem's id)
    sol_result,    \* parser: None before the call, Some(returned Result) after
    solvers,       \* adapter: the GurobiSolver instances constructed so far
    fs,            \* adapter: the working directory, path |-> file content
    call,          \* adapter: per thread, the run() call it is in or was last in
    runs           \* adapter: the number of run() calls started

fmtVars == <<prob, subject, buffer>>

parseVars == <<sol_file, sol_problem, sol_result>>

runVars == <<solvers, fs, call, runs>>

vars == <<fmtVars, parseVars, runVars>>

\* a component a specification does not exercise stays as constructed
FmtUnused == prob = [name |-> ""] /\ subject = "none" /\ buffer = ""

ParseUnused == sol_file = <<>> /\ sol_problem = [some |-> FALSE] /\ sol_result = [some |-> FALSE]

RunUnused == solvers = <<>> /\ fs = <<>> /\ call = <<>> /\ runs = 0

----------------------------------------------------------------------------
(* Option<T> *)

None == [some |-> FALSE]

Some(v) == [some |-> TRUE, val |-> v]

----------------------------------------------------------------------------
(* Text helpers *)

\* str::contains: p occurs in s
Contains(s, p) ==
    \E i \in 1..(Len(s) - Len(p) + 1) : SubSeq(s, i, i + Len(p) - 1) = p

\* position of the first occurrence of p in s at or after from; 0 when none
IndexFrom(s, p, from) ==
    LET hits == {i \in from..(Len(s) - Len(p) + 1) : SubSeq(s, i, i + Len(p) - 1) = p}
    IN  IF hits = {} THEN 0 ELSE CHOOSE i \in hits : \A j \in hits : i <= j

\* f32's Display: integral values print without a fraction (2.0 is "2")
F32ToString(n) ==
    LET a    == IF n < 0 THEN -n ELSE n
        sign == IF n < 0 THEN "-" ELSE ""
    IN  IF a % 10 = 0
        THEN sign \o ToString(a \div 10)
        ELSE sign \o ToString(a \div 10) \o "." \o ToString(a % 10)

----------------------------------------------------------------------------
(* dsl::LpExpression, as lp_format.rs destructures it *)

LitVal(n) == [tag |-> "LitVal", n |-> n]

AddExpr(e1, e2) == [tag |-> "AddExpr", e1 |-> e1, e2 |-> e2]

SubExpr(e1, e2) == [tag |-> "SubExpr", e1 |-> e1, e2 |-> e2]

MulExpr(e1, e2) == [tag |-> "MulExpr", e1 |-> e1, e2 |-> e2]

ConsBin(name) == [tag |-> "ConsBin", name |-> name]

ConsInt(name, lb, ub) ==
    [tag |-> "ConsInt", name |-> name, lower_bound |-> lb, upper_bound |-> ub]

ConsCont(name, lb, ub) ==
    [tag |-> "ConsCont", name |-> name, lower_bound |-> lb, upper_bound |-> ub]

EmptyExpr == [tag |-> "EmptyExpr"]

\* dsl::LpConstraint(left, operator, right)
LpConstraint(l, op, r) == [lhs |-> l, op |-> op, rhs |-> r]

IsVar(e) == e.tag \in {"ConsBin", "ConsInt", "ConsCont"}

IsBinOp(e) == e.tag \in {"AddExpr", "SubExpr", "MulExpr"}

----------------------------------------------------------------------------
(* format(e, w, with_parenthesis): the expression renderer *)

RECURSIVE Format(_, _)
Format(e, with_parenthesis) ==
    LET str_left_mult  == IF with_parenthesis THEN "(" ELSE ""
        str_right_mult == IF with_parenthesis THEN ")" ELSE ""
        str_op_mult    == IF with_parenthesis THEN " * " ELSE " "
    IN  CASE e.tag = "LitVal" -> F32ToString(e.n)
          [] e.tag = "AddExpr" ->
                str_left_mult \o Format(e.e1, with_parenthesis) \o " + "
                    \o Format(e.e2, with_parenthesis) \o str_right_mult
          [] e.tag = "SubExpr" ->
                str_left_mult \o Format(e.e1, with_parenthesis) \o " - "
                    \o Format(e.e2, with_parenthesis) \o str_right_mult
          [] e.tag = "MulExpr" ->
                IF e.e1.tag = "LitVal" /\ e.e1.n = 10
                THEN (str_left_mult \o " ") \o Format(e.e2, with_parenthesis)
                         \o (str_right_mult \o " ")
                ELSE IF e.e1.tag = "LitVal" /\ e.e1.n = -10
                THEN (str_left_mult \o "-") \o Format(e.e2, with_parenthesis)
                         \o (str_right_mult \o " ")
                ELSE str_left_mult \o Format(e.e1, with_parenthesis) \o str_op_mult
                         \o Format(e.e2, with_parenthesis) \o (str_right_mult \o " ")
          [] IsVar(e) -> e.name
          [] OTHER -> "EmptyExpr!!"

\* impl LpFileFormat for LpExpression: format(&self, w, false)
FormatExpression(e) == Format(e, FALSE)

\* impl LpFileFormat for LpConstraint
FormatConstraint(c) ==
    FormatExpression(c.lhs)
        \o (CASE c.op = "GreaterOrEqual" -> " >= "
              [] c.op = "LessOrEqual" -> " <= "
              [] c.op = "Equal" -> " = ")
        \o FormatExpression(c.rhs)

----------------------------------------------------------------------------
(* LpProblem::variables(): the variables of the objective, then of the      *)
(* constraints, each once, in first-seen order                              *)

RECURSIVE VarsOfExpr(_)
VarsOfExpr(e) ==
    IF IsVar(e) THEN <<e>>
    ELSE IF IsBinOp(e) THEN VarsOfExpr(e.e1) \o VarsOfExpr(e.e2)
    ELSE <<>>

RECURSIVE VarsOfConstraints(_)
VarsOfConstraints(cs) ==
    IF cs = <<>> THEN <<>>
    ELSE VarsOfExpr(Head(cs).lhs) \o VarsOfExpr(Head(cs).rhs)
             \o VarsOfConstraints(Tail(cs))

RECURSIVE FirstSeen(_, _)
FirstSeen(vs, seen) ==
    IF vs = <<>> THEN <<>>
    ELSE IF Head(vs).name \in seen THEN FirstSeen(Tail(vs), seen)
    ELSE <<Head(vs)>> \o FirstSeen(Tail(vs), seen \cup {Head(vs).name})

Variables(p) ==
    FirstSeen((IF p.obj_expr.some THEN VarsOfExpr(p.obj_expr.val) ELSE <<>>)
                  \o VarsOfConstraints(p.constraints), {})

----------------------------------------------------------------------------
(* The blocks of the LP file *)

format_objective_lp_file_block(p) ==
    LET obj_type == IF p.objective_type = "Maximize" THEN "Maximize\n  "
                                                     ELSE "Minimize\n  "
    IN  IF p.obj_expr.some
        THEN (obj_type \o "obj: ") \o FormatExpression(p.obj_expr.val)
        ELSE ""

RECURSIVE ConstraintLines(_, _)
ConstraintLines(cs, index) ==
    IF cs = <<>> THEN ""
    ELSE ("  c" \o ToString(index) \o ": ") \o FormatConstraint(Head(cs)) \o "\n"
             \o ConstraintLines(Tail(cs), index + 1)

format_constraints_lp_file_block(p) == ConstraintLines(p.constraints, 1)

BoundLine(v) ==
    IF v.tag \in {"ConsInt", "ConsCont"}
    THEN IF v.lower_bound.some
         THEN ("  " \o F32ToString(v.lower_bound.val) \o " <= " \o v.name)
                  \o (IF v.upper_bound.some
                      THEN " <= " \o F32ToString(v.upper_bound.val) ELSE "")
                  \o "\n"
         ELSE IF v.upper_bound.some
         THEN "  " \o v.name \o " <= " \o F32ToString(v.upper_bound.val) \o "\n"
         ELSE IF v.tag = "ConsCont" THEN "  " \o v.name \o " free" \o "\n"
         ELSE ""
    ELSE ""

RECURSIVE BoundLines(_)
BoundLines(vs) ==
    IF vs = <<>> THEN "" ELSE BoundLine(Head(vs)) \o BoundLines(Tail(vs))

format_bounds_lp_file_block(p) == BoundLines(Variables(p))

RECURSIVE NamesTagged(_, _)
NamesTagged(vs, tag) ==
    IF vs = <<>> THEN ""
    ELSE (IF Head(vs).tag = tag THEN Head(vs).name \o " " ELSE "")
             \o NamesTagged(Tail(vs), tag)

format_integers_lp_file_block(p) == NamesTagged(Variables(p), "ConsInt")

format_binaries_lp_file_block(p) == NamesTagged(Variables(p), "ConsBin")

\* impl LpFileFormat for LpProblem: format, as to_lp_file_format returns it
to_lp_file_format(p) ==
    ("\\ " \o p.name \o "\n\n")
        \o format_objective_lp_file_block(p)
        \o "\n\nSubject To\n"
        \o format_constraints_lp_file_block(p)
        \o "\nBounds\n"
        \o format_bounds_lp_file_block(p)
        \o "\nGenerals\n  "
        \o format_integers_lp_file_block(p)
        \o "\nBinary\n  "
        \o format_binaries_lp_file_block(p)
        \o "\nEnd"

----------------------------------------------------------------------------
(* The serializer's inputs: expressions of at most MaxOps operators over a *)
(* few literals and variables, and problems built from them                 *)

MaxOps == 2

MaxConstraints == 2

VarX == ConsCont("x", None, None)

VarY == ConsCont("y", Some(0), None)

VarZ == ConsCont("z", None, Some(55))

VarW == ConsInt("w", None, None)

VarK == ConsInt("k", Some(-10), Some(100))

VarB == ConsBin("b")

Leaves == {LitVal(10), LitVal(-10), LitVal(20), VarX, VarY}

OpTags == {"AddExpr", "SubExpr", "MulExpr"}

RECURSIVE ExprsOfSize(_)
ExprsOfSize(n) ==
    IF n = 0 THEN Leaves
    ELSE UNION { { [tag |-> t, e1 |-> a, e2 |-> b] :
                     t \in OpTags, a \in ExprsOfSize(k), b \in ExprsOfSize(n - 1 - k) } :
                 k \in 0..(n - 1) }

ExprsUpTo(n) == UNION { ExprsOfSize(k) : k \in 0..n }

ConstraintPool ==
    { LpConstraint(AddExpr(VarX, VarY), "LessOrEqual", LitVal(100)),
      LpConstraint(SubExpr(VarZ, VarB), "GreaterOrEqual", MulExpr(LitVal(15), VarK)),
      LpConstraint(MulExpr(LitVal(10), VarW), "Equal", EmptyExpr) }

ConstraintSeqs == UNION { [1..n -> ConstraintPool] : n \in 0..MaxConstraints }

ProblemsOver(exprs) ==
    [ name : {"p"},
      unique_name : {"A"},
      objective_type : {"Minimize", "Maximize"},
      obj_expr : {None} \cup { Some(e) : e \in exprs },
      constraints : ConstraintSeqs ]

\* the problem of the end-to-end scenario: minimize 2 x + y subject to x + y <= 10
ScenarioProblem ==
    [ name |-> "p",
      unique_name |-> "A",
      objective_type |-> "Minimize",
      obj_expr |-> Some(AddExpr(MulExpr(LitVal(20), VarX), VarY)),
      constraints |-> <<LpConstraint(AddExpr(VarX, VarY), "LessOrEqual", LitVal(100))>> ]

----------------------------------------------------------------------------
(* The serializer as a state machine: one problem, rendered once *)

InitFmt ==
    /\ prob \in ProblemsOver(ExprsUpTo(MaxOps))
    /\ subject = "none"
    /\ buffer = ""
    /\ ParseUnused
    /\ RunUnused

\* LpProblem::to_lp_file_format
SerializeProblem ==
    /\ subject = "none"
    /\ buffer' = to_lp_file_format(prob)
    /\ subject' = "problem"
    /\ UNCHANGED <<prob, parseVars, runVars>>

\* LpExpression::to_lp_file_format, on the objective expression
SerializeExpression ==
    /\ subject = "none"
    /\ prob.obj_expr.some
    /\ buffer' = FormatExpression(prob.obj_expr.val)
    /\ subject' = "expr"
    /\ UNCHANGED <<prob, parseVars, runVars>>

NextFmt == SerializeProblem \/ SerializeExpression

SpecFmt == InitFmt /\ [][NextFmt]_vars

----------------------------------------------------------------------------
(* Claims about the serializer *)

\* the text of s between the first a and the next b
SectionBetween(s, a, b) ==
    LET i == IndexFrom(s, a, 1)
        j == IndexFrom(s, b, i + Len(a))
    IN  SubSeq(s, i + Len(a), j - 1)

\* the headers occur in s one after the other, in this order
RECURSIVE InOrder(_, _, _)
InOrder(s, hdrs, from) ==
    IF hdrs = <<>> THEN TRUE
    ELSE LET i == IndexFrom(s, Head(hdrs), from)
         IN  i # 0 /\ InOrder(s, Tail(hdrs), i + Len(Head(hdrs)))

\* C1: a rendered Mul(Literal(1.0), X) is exactly the rendering of X, and a
\* rendered Mul(Literal(-1.0), X) is exactly "-" followed by the rendering of X.
C1_UnitCoefficientElided ==
    subject = "expr" =>
        LET e == prob.obj_expr.val
        IN  /\ (e.tag = "MulExpr" /\ e.e1 = LitVal(10))
                => buffer = FormatExpression(e.e2)
            /\ (e.tag = "MulExpr" /\ e.e1 = LitVal(-10))
                => buffer = "-" \o FormatExpression(e.e2)

\* C2: the scenario problem serializes with the Subject To section exactly
\* "  c1: x + y <= 10\n" and with "Minimize\n  obj: 2 x + y" in the objective.
C2_ScenarioText ==
    (subject = "problem" /\ prob = ScenarioProblem) =>
        /\ SectionBetween(buffer, "\n\nSubject To\n", "\nBounds\n")
               = "  c1: x + y <= 10\n"
        /\ Contains(buffer, "Minimize\n  obj: 2 x + y")

\* C3: every serialized problem holds the objective header of its direction,
\* then Subject To, Bounds, Generals, Binary and End, in this order, also when
\* it has no objective expression.
C3_AllHeadersInOrder ==
    subject = "problem" =>
        InOrder(buffer,
                <<prob.objective_type, "Subject To", "Bounds", "Generals",
                  "Binary", "End">>, 1)

----------------------------------------------------------------------------
(* solvers::Solution and Result<Solution, String> *)

Solution(status, results, related_problem) ==
    [status |-> status, results |-> results, related_problem |-> related_problem]

Ok(solution) == [tag |-> "Ok", solution |-> solution]

Err(msg) == [tag |-> "Err", msg |-> msg]

\* HashMap::new and HashMap::insert, the map held as a function on its keys
EmptyMap == [k \in {} |-> 0]

\* an insert that would keep the value already held for the key
MapInsertFirstWins(m, k, v) ==
    [x \in DOMAIN m \cup {k} |-> IF x \in DOMAIN m THEN m[x] ELSE v]

MapInsert(m, k, v) == [x \in DOMAIN m \cup {k} |-> IF x = k THEN v ELSE m[x]]

----------------------------------------------------------------------------
(* The string functions read_specific_solution relies on *)

CharAt(s, i) == SubSeq(s, i, i)

IsWhitespace(c) == c \in {" ", "\t"}

\* str::split_whitespace: the maximal runs of non-whitespace characters
RECURSIVE SplitFrom(_, _, _, _)
SplitFrom(s, i, cur, acc) ==
    IF i > Len(s) THEN (IF cur = "" THEN acc ELSE Append(acc, cur))
    ELSE IF IsWhitespace(CharAt(s, i))
         THEN SplitFrom(s, i + 1, "", IF cur = "" THEN acc ELSE Append(acc, cur))
         ELSE SplitFrom(s, i + 1, cur \o CharAt(s, i), acc)

SplitWhitespace(s) == SplitFrom(s, 1, "", <<>>)

\* buffer.split(" ").next(): the text before the first space, which split
\* yields for every string, the empty one included
SplitSpaceNext(s) ==
    LET i == IndexFrom(s, " ", 1)
    IN  Some(IF i = 0 THEN s ELSE SubSeq(s, 1, i - 1))

Digits == {"0", "1", "2", "3", "4", "5", "6", "7", "8", "9"}

DigitVal(c) == CHOOSE d \in 0..9 : ToString(d) = c

AllDigits(s) == \A i \in 1..Len(s) : CharAt(s, i) \in Digits

RECURSIVE DigitsVal(_)
DigitsVal(s) ==
    IF s = "" THEN 0
    ELSE 10 * DigitsVal(SubSeq(s, 1, Len(s) - 1)) + DigitVal(CharAt(s, Len(s)))

RECURSIVE Pow10(_)
Pow10(n) == IF n <= 0 THEN 1 ELSE 10 * Pow10(n - 1)

\* str::parse::<f32> on decimal literals: [sign] digits [. digits] [e [sign] digits]
\* with a digit in the mantissa; the value in tenths, finer digits dropped.
\* (The spellings inf, infinity and nan, which parse too, are not among the
\* tokens of the files below.)
ParseF32(tok) ==
    LET signed == Len(tok) > 0 /\ CharAt(tok, 1) \in {"+", "-"}
        neg    == signed /\ CharAt(tok, 1) = "-"
        rest   == IF signed THEN SubSeq(tok, 2, Len(tok)) ELSE tok
        epos   == LET a == IndexFrom(rest, "e", 1)
                      b == IndexFrom(rest, "E", 1)
                  IN  IF a = 0 THEN b ELSE IF b = 0 THEN a ELSE IF a < b THEN a ELSE b
        mant   == IF epos = 0 THEN rest ELSE SubSeq(rest, 1, epos - 1)
        expo   == IF epos = 0 THEN "" ELSE SubSeq(rest, epos + 1, Len(rest))
        esign  == Len(expo) > 0 /\ CharAt(expo, 1) \in {"+", "-"}
        eneg   == esign /\ CharAt(expo, 1) = "-"
        edig   == IF esign THEN SubSeq(expo, 2, Len(expo)) ELSE expo
        dot    == IndexFrom(mant, ".", 1)
        ip     == IF dot = 0 THEN mant ELSE SubSeq(mant, 1, dot - 1)
        fp     == IF dot = 0 THEN "" ELSE SubSeq(mant, dot + 1, Len(mant))
        valid  == /\ AllDigits(ip) /\ AllDigits(fp)
                  /\ Len(ip) + Len(fp) >= 1
                  /\ epos # 0 => (AllDigits(edig) /\ Len(edig) >= 1)
    IN  IF ~valid THEN [ok |-> FALSE, msg |-> "invalid float literal"]
        ELSE LET m     == DigitsVal(ip \o fp)
                 e     == (IF eneg THEN -DigitsVal(edig) ELSE DigitsVal(edig))
                              - Len(fp) + 1
                 mag   == IF e >= 0 THEN m * Pow10(e) ELSE m \div Pow10(-e)
             IN  [ok |-> TRUE, val |-> IF neg THEN -mag ELSE mag]

----------------------------------------------------------------------------
(* GurobiSolver::read_specific_solution *)

\* the for loop over file.lines(), from line i on, with vars_value so far
RECURSIVE ReadBodyLines(_, _, _, _)
ReadBodyLines(file, i, vars_value, problem) ==
    IF i > Len(file)
    THEN Ok(Solution("Optimal", vars_value, problem))
    ELSE LET l == file[i]
         IN  IF Len(l) > 0 /\ CharAt(l, 1) = "#"
             THEN ReadBodyLines(file, i + 1, vars_value, problem)
             ELSE LET result_line == SplitWhitespace(l)
                  IN  IF Len(result_line) = 2
                      THEN LET n == ParseF32(result_line[2])
                           IN  IF n.ok
                               THEN ReadBodyLines(file, i + 1,
                                        MapInsert(vars_value, result_line[1], n.val),
                                        problem)
                               ELSE Err(n.msg)
                      ELSE Err("Incorrect solution format")

read_specific_solution(file, problem) ==
    LET buffer_ == IF file = <<>> THEN "" ELSE file[1] \o "\n"
    IN  IF SplitSpaceNext(buffer_).some
        THEN ReadBodyLines(file, 2, EmptyMap, problem)
        ELSE Err("Incorrect solution format")

----------------------------------------------------------------------------
(* The parser as a state machine: one solution file, read once *)

MaxBodyLines == 2

HeaderLines == {"# Objective value = 3", "header"}

BodyLines ==
    { "x1 1.5", "x2 2.0", "  x1\t3 ", "x3 -2.5e1", "# comment", "",
      "x1 1.5 extra", "x1 notanumber", " # 7", "x2" }

SolutionFiles ==
    {<<>>} \cup
    { <<h>> \o b : h \in HeaderLines,
                   b \in UNION { [1..n -> BodyLines] : n \in 0..MaxBodyLines } }

InitParse ==
    /\ sol_file \in SolutionFiles
    /\ sol_problem \in {None, Some("A")}
    /\ sol_result = None
    /\ FmtUnused
    /\ RunUnused

ReadSpecificSolution ==
    /\ ~sol_result.some
    /\ sol_result' = Some(read_specific_solution(sol_file, sol_problem))
    /\ UNCHANGED <<sol_file, sol_problem, fmtVars, runVars>>

NextParse == ReadSpecificSolution

SpecParse == InitParse /\ [][NextParse]_vars

----------------------------------------------------------------------------
(* Claims about the parser *)

\* C4: reading an empty file (no header line) returns an error, never a
\* Solution.
C4_EmptyFileIsError ==
    (sol_result.some /\ sol_file = <<>>) => sol_result.val.tag = "Err"

\* a body line that is no comment: it does not begin with '#'
Counts(l) == ~(Len(l) > 0 /\ CharAt(l, 1) = "#")

\* a body line of exactly two tokens, the second a number
WellFormed(l) ==
    LET t == SplitWhitespace(l) IN Len(t) = 2 /\ ParseF32(t[2]).ok

Offending(file) == { i \in 2..Len(file) : Counts(file[i]) /\ ~WellFormed(file[i]) }

\* for each name, the value of the last counted line that carries it
LastValues(file) ==
    LET carrying(n) == { i \in 2..Len(file) :
                           Counts(file[i]) /\ SplitWhitespace(file[i])[1] = n }
        last(n)     == CHOOSE i \in carrying(n) : \A j \in carrying(n) : j <= i
        names       == { SplitWhitespace(file[i])[1] :
                           i \in { j \in 2..Len(file) : Counts(file[j]) } }
    IN  [ n \in names |-> ParseF32(SplitWhitespace(file[last(n)])[2]).val ]

\* C5: a file with a header yields a Solution exactly when every body line
\* that does not begin with '#' has two tokens of which the second is a
\* number; the Solution is Optimal and maps each name to the value of its last
\* line; otherwise the result is the error of the first offending line, and
\* it carries no mapping.
C5_ParsesIffWellFormed ==
    (sol_result.some /\ sol_file # <<>>) =>
        LET r   == sol_result.val
            bad == Offending(sol_file)
        IN  IF bad = {}
            THEN /\ r.tag = "Ok"
                 /\ r.solution.status = "Optimal"
                 /\ r.solution.results = LastValues(sol_file)
            ELSE LET first == CHOOSE i \in bad : \A j \in bad : i <= j
                     t     == SplitWhitespace(sol_file[first])
                 IN  r = Err(IF Len(t) = 2 THEN "invalid float literal"
                                           ELSE "Incorrect solution format")

\* a file with a duplicated name, a comment and odd spacing was read to a Solution
C5_Witness ==
    /\ sol_result.some
    /\ sol_result.val.tag = "Ok"
    /\ sol_file = <<"header", "x1 1.5", "  x1\t3 ">>
    /\ sol_result.val.solution.results = [n \in {"x1"} |-> 30]

----------------------------------------------------------------------------
(* The working directory *)

WriteFile(dir, path, content) ==
    [q \in DOMAIN dir \cup {path} |-> IF q = path THEN content ELSE dir[q]]

RemoveFile(dir, path) == [q \in DOMAIN dir \ {path} |-> dir[q]]

EmptyDir == [q \in {} |-> ""]

ModelPath(id) == id \o ".lp"

StderrPath(id) == id \o ".stderr"

StdoutPath(id) == id \o ".stdout"

----------------------------------------------------------------------------
(* GurobiSolver *)

\* GurobiSolver::new(); uuid stands for Uuid::new_v4(), fresh at every call
NewSolver(uuid) ==
    [ name |-> "Gurobi",
      command_name |-> "gurobi_cl",
      temp_solution_file |-> "u" \o ToString(uuid) \o ".sol" ]

\* GurobiSolver::command_name(&self, command_name)
WithCommandName(self, command_name) ==
    [ name |-> self.name,
      command_name |-> command_name,
      temp_solution_file |-> self.temp_solution_file ]

\* an inference that would fall back to Optimal, the parser's default
InferStatusDefaultOptimal(result) ==
    IF Contains(result, "Optimal objective") THEN "Optimal"
    ELSE IF Contains(result, "infesible") THEN "Infeasible"
    ELSE "Optimal"

\* the status process_output infers from the solver's standard output
InferStatus(result) ==
    IF Contains(result, "Optimal objective") THEN "Optimal"
    ELSE IF Contains(result, "infesible") THEN "Infeasible"
    ELSE "SubOptimal"

\* SolverWithSolutionParsing::read_solution: open the file, then parse it
read_solution(dir, path, problem) ==
    IF path \in DOMAIN dir
    THEN read_specific_solution(dir[path], problem)
    ELSE Err("Cannot open file")

\* process_output on success: the parsed Solution with the inferred status
SolutionWithStatus(parsed, status) ==
    IF parsed.tag = "Ok"
    THEN Ok([parsed.solution EXCEPT !.status = status])
    ELSE parsed

\* a failure path that would keep the standard error only
SideFilesStderrOnly(dir, id, stderr, stdout) ==
    WriteFile(dir, StderrPath(id), stderr)

\* process_output on failure: the two side files
SideFiles(dir, id, stderr, stdout) ==
    WriteFile(WriteFile(dir, StderrPath(id), stderr), StdoutPath(id), stdout)

\* ExitStatus's Display
StatusString(code) == "exit status: " \o ToString(code)

----------------------------------------------------------------------------
(* run() as a state machine.  A call goes through                          *)
(*   write_lp -> spawn -> process -> cleanup -> returned                   *)
(* and may return early (write_lp fails) or panic (an expect fails).       *)

MaxRuns == 2

MaxSolvers == 2

Threads == {1, 2}

OtherProblem ==
    [ name |-> "q",
      unique_name |-> "B",
      objective_type |-> "Maximize",
      obj_expr |-> None,
      constraints |-> <<>> ]

RunProblems == {ScenarioProblem, OtherProblem}

ProblemById(id) == CHOOSE p \in RunProblems : p.unique_name = id

\* what the external solver process may do: its exit code, its output, and
\* the result file it writes, if any
Utf8(text) == [utf8 |-> TRUE, text |-> text]

NotUtf8 == [utf8 |-> FALSE, text |-> ""]

SolverStdouts ==
    { Utf8("Optimal objective 3"), Utf8("Model is infesible"),
      Utf8("Optimal objective 0 (infesible)"), Utf8("Time limit reached"),
      NotUtf8 }

SolverStderrs == {"", "license error"}

SolverResultFiles ==
    { <<"# Objective value = 3", "x 1.5", "y 0">>, <<"header", "x 2.0">>,
      <<"header", "x">> }

SolverOutcomes ==
    [ code : {0, 1},
      stdout : SolverStdouts,
      stderr : SolverStderrs,
      writes : {None} \cup { Some(f) : f \in SolverResultFiles } ]

\* the outcomes kept when two calls run concurrently
ConcurrentOutcomes ==
    { o \in SolverOutcomes :
        /\ o.stdout = Utf8("Optimal objective 3")
        /\ o.stderr = ""
        /\ o.writes \in {None, Some(<<"header", "x 2.0">>)} }

NoOutput == [code |-> 0, stdout |-> Utf8(""), stderr |-> ""]

NoResult == [tag |-> "None"]

IdleCall ==
    [ pc |-> "idle", solver |-> 0, problem |-> "",
      r |-> NoOutput,            \* the Output of the solver process
      result |-> NoResult,       \* what run() returns
      \* history of the call, for the claims
      lp_created |-> FALSE,      \* File::create(file_model) succeeded
      delete_attempted |-> FALSE,\* fs::remove_file(file_model) was called
      exited |-> FALSE,          \* the solver process ran and exited
      sol_written |-> FALSE,     \* the solver process wrote the result file
      sol_parsed |-> FALSE,      \* read_solution was called
      touched |-> {},            \* the paths the call read or wrote
      overlapped |-> {} ]        \* the threads whose calls ran during this one

Active(t) == call[t].pc \in {"write_lp", "spawn", "process", "cleanup"}

Self(t) == solvers[call[t].solver]

\* GurobiSolver::new()
New ==
    /\ Len(solvers) < MaxSolvers
    /\ solvers' = Append(solvers, NewSolver(Len(solvers) + 1))
    /\ UNCHANGED <<fs, call, runs, fmtVars, parseVars>>

\* solvers[i].command_name(c)
CommandName(i, c) ==
    /\ Len(solvers) < MaxSolvers
    /\ i \in DOMAIN solvers
    /\ solvers' = Append(solvers, WithCommandName(solvers[i], c))
    /\ UNCHANGED <<fs, call, runs, fmtVars, parseVars>>

\* thread t calls solvers[i].run(problem id)
RunStart(t, i, id) ==
    /\ call[t].pc \in {"idle", "returned"}
    /\ runs < MaxRuns
    /\ i \in DOMAIN solvers
    /\ runs' = runs + 1
    /\ LET others == { u \in DOMAIN call : u # t /\ Active(u) }
       IN  call' = [ u \in DOMAIN call |->
                       IF u = t
                       THEN [IdleCall EXCEPT !.pc = "write_lp", !.solver = i,
                                             !.problem = id, !.overlapped = others]
                       ELSE IF u \in others
                       THEN [call[u] EXCEPT !.overlapped = @ \cup {t}]
                       ELSE call[u] ]
    /\ UNCHANGED <<solvers, fs, fmtVars, parseVars>>

\* problem.write_lp(file_model), and run's match on its result
WriteLp(t) ==
    /\ call[t].pc = "write_lp"
    /\ LET file_model == ModelPath(call[t].problem)
           c == [call[t] EXCEPT !.touched = @ \cup {file_model}]
       IN  \/ \* File::create fails
              /\ call' = [call EXCEPT ![t] =
                            [c EXCEPT !.pc = "returned",
                                      !.result = Err("io error: create")]]
              /\ fs' = fs
           \/ \* File::create succeeds, write fails
              /\ call' = [call EXCEPT ![t] =
                            [c EXCEPT !.pc = "returned", !.lp_created = TRUE,
                                      !.result = Err("io error: write")]]
              /\ fs' = WriteFile(fs, file_model, "")
           \/ \* Ok(_)
              /\ call' = [call EXCEPT ![t] =
                            [c EXCEPT !.pc = "spawn", !.lp_created = TRUE]]
              /\ fs' = WriteFile(fs, file_model,
                                 to_lp_file_format(ProblemById(call[t].problem)))
    /\ UNCHANGED <<solvers, runs, fmtVars, parseVars>>

\* Command::new(command_name).arg(ResultFile=...).arg(file_model).output()
Spawn(t, outcomes) ==
    /\ call[t].pc = "spawn"
    /\ \/ \* Err(_): the process could not be started
          /\ call' = [call EXCEPT ![t] =
                        [@ EXCEPT !.pc = "cleanup",
                                  !.result = Err("Error running the "
                                                     \o Self(t).name \o " solver")]]
          /\ fs' = fs
       \/ \* Ok(r): the process ran
          \E o \in outcomes :
             LET result_file == Self(t).temp_solution_file
             IN  /\ call' = [call EXCEPT ![t] =
                               [@ EXCEPT !.pc = "process",
                                         !.r = [code |-> o.code, stdout |-> o.stdout,
                                                stderr |-> o.stderr],
                                         !.exited = TRUE,
                                         !.sol_written = o.writes.some,
                                         !.touched = @ \cup
                                             (IF o.writes.some THEN {result_file}
                                                               ELSE {})]]
                 /\ fs' = IF o.writes.some
                          THEN WriteFile(fs, result_file, o.writes.val)
                          ELSE fs
    /\ UNCHANGED <<solvers, runs, fmtVars, parseVars>>

\* self.process_output(problem, r)
ProcessOutput(t) ==
    /\ call[t].pc = "process"
    /\ LET r  == call[t].r
           id == call[t].problem
       IN  IF ~r.stdout.utf8
           THEN \* String::from_utf8(r.stdout).expect("") panics
                /\ call' = [call EXCEPT ![t] = [@ EXCEPT !.pc = "panicked"]]
                /\ fs' = fs
           ELSE LET result == r.stdout.text
                    status == InferStatus(result)
                IN  IF r.code = 0
                    THEN /\ call' = [call EXCEPT ![t] =
                                [@ EXCEPT !.pc = "cleanup",
                                          !.sol_parsed = TRUE,
                                          !.touched = @ \cup {Self(t).temp_solution_file},
                                          !.result = SolutionWithStatus(
                                              read_solution(fs, Self(t).temp_solution_file,
                                                            Some(id)),
                                              status)]]
                         /\ fs' = fs
                    ELSE \E fault \in {"none", "stderr", "stdout"} :
                            \* File::create(..).expect(..) of a side file may panic
                            /\ fs' = CASE fault = "none" ->
                                            SideFiles(fs, id, r.stderr, result)
                                       [] fault = "stdout" ->
                                            WriteFile(fs, StderrPath(id), r.stderr)
                                       [] fault = "stderr" -> fs
                            /\ call' = [call EXCEPT ![t] =
                                  [@ EXCEPT !.pc = IF fault = "none" THEN "cleanup"
                                                                     ELSE "panicked",
                                            !.touched = @ \cup
                                                {StderrPath(id), StdoutPath(id)},
                                            !.result = IF fault = "none"
                                                       THEN Err(StatusString(r.code))
                                                       ELSE @]]
    /\ UNCHANGED <<solvers, runs, fmtVars, parseVars>>

\* let _ = fs::remove_file(&file_model); result
Cleanup(t) ==
    /\ call[t].pc = "cleanup"
    /\ \E removed \in BOOLEAN :
          fs' = IF removed THEN RemoveFile(fs, ModelPath(call[t].problem)) ELSE fs
    /\ call' = [call EXCEPT ![t] =
                  [@ EXCEPT !.pc = "returned", !.delete_attempted = TRUE,
                            !.touched = @ \cup {ModelPath(call[t].problem)}]]
    /\ UNCHANGED <<solvers, runs, fmtVars, parseVars>>

\* one adapter, run() called again and again by one thread
InitRun ==
    /\ solvers = <<NewSolver(1)>>
    /\ fs = EmptyDir
    /\ call = [t \in {1} |-> IdleCall]
    /\ runs = 0
    /\ FmtUnused
    /\ ParseUnused

NextRun ==
    \/ \E p \in RunProblems : RunStart(1, 1, p.unique_name)
    \/ WriteLp(1)
    \/ Spawn(1, SolverOutcomes)
    \/ ProcessOutput(1)
    \/ Cleanup(1)

SpecRun == InitRun /\ [][NextRun]_vars

\* adapters constructed at will, run() called by two threads
InitConc ==
    /\ solvers = <<NewSolver(1)>>
    /\ fs = EmptyDir
    /\ call = [t \in Threads |-> IdleCall]
    /\ runs = 0
    /\ FmtUnused
    /\ ParseUnused

NextConc ==
    \/ New
    \/ \E i \in 1..MaxSolvers : CommandName(i, "gurobi_cl_9")
    \/ \E t \in Threads, i \in 1..MaxSolvers, p \in RunProblems :
          RunStart(t, i, p.unique_name)
    \/ \E t \in Threads : WriteLp(t)
    \/ \E t \in Threads : Spawn(t, ConcurrentOutcomes)
    \/ \E t \in Threads : ProcessOutput(t)
    \/ \E t \in Threads : Cleanup(t)

SpecConc == InitConc /\ [][NextConc]_vars

----------------------------------------------------------------------------
(* Claims about the adapter *)

\* the call of thread t has returned from a solver process that exited with
\* success, and returned a Solution
SolvedCall(t) ==
    /\ call[t].pc = "returned"
    /\ call[t].exited
    /\ call[t].r.code = 0
    /\ call[t].result.tag = "Ok"

\* what the parser returns for the result file of the call of thread t
ParserResult(t) ==
    read_solution(fs, Self(t).temp_solution_file, Some(call[t].problem))

\* C6 as stated: the returned status is Optimal when the standard output
\* holds the optimal phrase, Infeasible when it holds the infeasible phrase,
\* and else the parser's own status; the mapping is the parser's.
C6_StatusElseParserDefault ==
    \A t \in DOMAIN call :
        SolvedCall(t) =>
            LET out == call[t].r.stdout.text
            IN  /\ call[t].result.solution.status =
                       IF Contains(out, "Optimal objective") THEN "Optimal"
                       ELSE IF Contains(out, "infesible") THEN "Infeasible"
                       ELSE ParserResult(t).solution.status
                /\ call[t].result.solution.results = ParserResult(t).solution.results

\* C6 as amended: the returned status is Optimal when the standard output
\* holds the optimal phrase, else Infeasible when it holds the infeasible
\* phrase, and else SubOptimal (the parser's status is always replaced); the
\* mapping is the parser's.
C6_StatusElseSubOptimal ==
    \A t \in DOMAIN call :
        SolvedCall(t) =>
            LET out == call[t].r.stdout.text
            IN  /\ call[t].result.solution.status =
                       IF Contains(out, "Optimal objective") THEN "Optimal"
                       ELSE IF Contains(out, "infesible") THEN "Infeasible"
                       ELSE "SubOptimal"
                /\ call[t].result.solution.results = ParserResult(t).solution.results

\* a solve whose output names neither phrase returned its parsed values
C6_Witness ==
    /\ SolvedCall(1)
    /\ call[1].r.stdout = Utf8("Time limit reached")
    /\ call[1].result.solution.status = "SubOptimal"
    /\ call[1].result.solution.results = [n \in {"x"} |-> 20]

\* C7: a run() call that generated the model file has attempted to delete it
\* by the time it ends, however it ends.
C7_ModelFileDeleteAttempted ==
    \A t \in DOMAIN call :
        (call[t].pc \in {"returned", "panicked"} /\ call[t].lp_created)
            => call[t].delete_attempted

\* C8: after a solver process that exited with a non-zero status, run() returns
\* no Solution and does not parse the result file; when it returns, it returns
\* the status string as an error, and <id>.stderr and <id>.stdout hold the
\* captured standard error and standard output.
C8_NonZeroExit ==
    \A t \in DOMAIN call :
        (call[t].exited /\ call[t].r.code # 0) =>
            /\ call[t].result.tag # "Ok"
            /\ ~call[t].sol_parsed
            /\ call[t].pc = "returned" =>
                  /\ call[t].result = Err(StatusString(call[t].r.code))
                  /\ StderrPath(call[t].problem) \in DOMAIN fs
                  /\ fs[StderrPath(call[t].problem)] = call[t].r.stderr
                  /\ StdoutPath(call[t].problem) \in DOMAIN fs
                  /\ fs[StdoutPath(call[t].problem)] = call[t].r.stdout.text

\* a failed solve returned, its output kept in the side files
C8_Witness ==
    /\ call[1].pc = "returned"
    /\ call[1].exited
    /\ call[1].r.code = 1
    /\ call[1].problem = "A"
    /\ call[1].result = Err("exit status: 1")
    /\ "A.stderr" \in DOMAIN fs /\ fs["A.stderr"] = "license error"
    /\ "A.stdout" \in DOMAIN fs /\ fs["A.stdout"] = "Model is infesible"

\* C9: any two adapter instances have different result files, and two
\* overlapping run() calls on different instances and on problems of
\* different identifiers touch no common path.
C9_InstancesShareNoFile ==
    /\ \A i, j \in DOMAIN solvers :
          i # j => solvers[i].temp_solution_file # solvers[j].temp_solution_file
    /\ \A t, u \in DOMAIN call :
          ( /\ t # u
            /\ u \in call[t].overlapped
            /\ call[t].solver # call[u].solver
            /\ call[t].problem # call[u].problem )
              => call[t].touched \cap call[u].touched = {}

\* C10: a Solution returned by a run() call was read from a result file that
\* the solver process of that same call wrote.
C10_SolutionFromThisRun ==
    \A t \in DOMAIN call :
        (call[t].pc = "returned" /\ call[t].result.tag = "Ok")
            => call[t].sol_written

====
